---- MODULE Spec2Model ----
(***************************************************************************)
(* A model of dltpy/dltfile.py: the DLT decoder's payload parser           *)
(* (parse_payload, DltMessage.payload), its filter (DltMessage.match), the *)
(* file-mode reader (class DltFile, lines 152-203) and the stream-mode     *)
(* reader (class DltReader, lines 120-149).                                *)
(*                                                                         *)
(* Three collaborators are imported by dltfile.py and are not part of the  *)
(* source at hand: dltpy.gen.stored_message.StoredMessage and              *)
(* dltpy.gen.payload_item.PayloadItem (generated record parsers) and       *)
(* dltpy.native.native_dltreader.DltReader (the buffering reader).  They   *)
(* are modelled from the specification's sections 3, 4.1-4.4, 4.7 and 6    *)
(* (the DLT wire layout); every such definition says so in its comment.    *)
(*                                                                         *)
(* Bytes are naturals 0..255, byte strings are sequences of bytes, Python  *)
(* None is the record with kind "none".                                    *)
(***************************************************************************)
EXTENDS Integers, Sequences, FiniteSets

VARIABLES
    \* ---- the decoder under test (file mode or stream mode)
    mode,        \* "file" (class DltFile), "stream" (class DltReader), "payload"
    data,        \* the bytes of the file / the bytes the stream source will deliver
    items,       \* ghost: the pieces data was concatenated from
    filters,     \* the constructor's filters argument
    capture_raw, \* the constructor's capture_raw argument
    pos,         \* file mode: fd.tell(); stream mode: bytes the source has delivered
    pc,          \* "run" | "done" (get_next_message returned None) | "raised"
                 \* | "new" (no reader constructed yet)
    rpc,         \* stream mode, inside get_next_message: "read" | "fill"
    buf,         \* stream mode: the native reader's valid region
    cap,         \* stream mode: the native reader's buffer capacity
    out,         \* the messages yielded (file mode: returned), in order
    trace,       \* ghost: one entry per record parse attempt / decision
    chunking,    \* ghost, stream mode: whether every fill so far delivered one
                 \* byte (.one), and whether every fill filled all it could (.max)
    \* ---- one DltMessage whose payload accessor is exercised
    raw_payload,     \* DltMessage.raw_payload
    p_items,         \* ghost: the items raw_payload was encoded from
    payload_cache,   \* DltMessage._payload_cache
    parse_calls,     \* ghost: number of parse_payload invocations
    results          \* ghost: what each access of .payload produced

vars == <<mode, data, items, filters, capture_raw, pos, pc, rpc, buf, cap, out,
          trace, chunking, raw_payload, p_items, payload_cache, parse_calls, results>>

decodeVars == <<mode, data, items, filters, capture_raw, pos, pc, rpc, buf, cap,
                out, trace, chunking>>
payloadVars == <<raw_payload, p_items, payload_cache, parse_calls, results>>

----------------------------------------------------------------------------
(* Byte-string helpers.                                                    *)

Min(a, b) == IF a < b THEN a ELSE b

\* pl[from+1 .. from+n] with 0-based offset `from` (Python pl[from:from+n]).
Slice(s, from, n) == [i \in 1..n |-> s[from + i]]

\* Concatenation of a sequence of byte strings.
RECURSIVE Concat(_)
Concat(ss) == IF ss = <<>> THEN <<>> ELSE Head(ss) \o Concat(Tail(ss))

\* Little-endian unsigned integer of a byte string.
RECURSIVE LE(_)
LE(bs) == IF bs = <<>> THEN 0 ELSE Head(bs) + 256 * LE(Tail(bs))

\* Big-endian unsigned integer of a byte string.
RECURSIVE BE(_)
BE(bs) == IF bs = <<>> THEN 0
          ELSE BE(SubSeq(bs, 1, Len(bs) - 1)) * 256 + bs[Len(bs)]

\* n-byte little-endian / big-endian encodings of v.
RECURSIVE EncLE(_, _)
EncLE(v, n) == IF n = 0 THEN <<>> ELSE <<v % 256>> \o EncLE(v \div 256, n - 1)
RECURSIVE EncBE(_, _)
EncBE(v, n) == IF n = 0 THEN <<>> ELSE EncBE(v \div 256, n - 1) \o <<v % 256>>

Bit(v, k) == (v \div (2 ^ k)) % 2 = 1

\* An optional value: <<>> is Python None, <<x>> is the value x.
NoneVal == <<>>
Some(x) == <<x>>

----------------------------------------------------------------------------
(* Payload decoding: dltpy.gen.payload_item.PayloadItem, get_value,        *)
(* parse_payload, DltMessage.payload.                                      *)

\* What a call produces: a list ("ok"), Python None ("none"), or an exception
\* that propagates to the caller ("raise").
Ok(xs) == [kind |-> "ok", items |-> xs, exc |-> ""]
None == [kind |-> "none", items |-> <<>>, exc |-> ""]
Raise(e) == [kind |-> "raise", items |-> <<>>, exc |-> e]

\* A decoded item value: bytes (t = "bytes"), a number (t = "int") or the bit
\* pattern of a float (t = "float").
BytesVal(d) == [t |-> "bytes", data |-> d, num |-> 0]
IntVal(n) == [t |-> "int", data |-> <<>>, num |-> n]
FloatVal(n) == [t |-> "float", data |-> <<>>, num |-> n]
SizedString(d) == [t |-> "sized", data |-> d, num |-> Len(d)]

\* The attribute names get_value probes, in its order (line 34).
KindOrder == <<"str", "uint", "sint", "float", "bool">>

\* Type info of a payload item (the DLT type-info word, little endian):
\* bits 0-3 the width code, bit 4 bool, 5 sint, 6 uint, 7 float, 9 string.
\* Modelled from the specification (sections 3, 4.4, 6): PayloadItem is
\* generated code that is not part of the source at hand.
PayloadType(ti) ==
    [tyle |-> ti % 16, bool |-> Bit(ti, 4), sint |-> Bit(ti, 5),
     uint |-> Bit(ti, 6), floa |-> Bit(ti, 7), strg |-> Bit(ti, 9)]

\* The byte width a width code declares; 0 when the code declares none.
TyleWidth(tyle) ==
    CASE tyle = 1 -> 1 [] tyle = 2 -> 2 [] tyle = 3 -> 4 [] tyle = 4 -> 8
      [] tyle = 5 -> 16 [] OTHER -> 0

\* Whether the tag declares the kind named `k` (a numeric kind needs a width).
HasKind(plt, k) ==
    CASE k = "str" -> plt.strg
      [] k = "uint" -> plt.uint /\ TyleWidth(plt.tyle) > 0
      [] k = "sint" -> plt.sint /\ TyleWidth(plt.tyle) > 0
      [] k = "float" -> plt.floa /\ TyleWidth(plt.tyle) > 0
      [] k = "bool" -> plt.bool /\ TyleWidth(plt.tyle) > 0
      [] OTHER -> FALSE

\* Two's complement value of the w-byte unsigned number n.
Signed(n, w) == IF n >= 2 ^ (8 * w - 1) THEN n - 2 ^ (8 * w) ELSE n

\* Reads the value of kind k at offset `at` of pl: [ok, end, val]; ok = FALSE is
\* the parser's EOFError (fewer bytes left than the item declares).
ReadKind(pl, at, plt, k) ==
    IF k = "str"
    THEN IF at + 2 > Len(pl) THEN [ok |-> FALSE, end |-> at, val |-> IntVal(0)]
         ELSE LET n == LE(Slice(pl, at, 2)) IN
              IF at + 2 + n > Len(pl)
              THEN [ok |-> FALSE, end |-> at, val |-> IntVal(0)]
              ELSE [ok |-> TRUE, end |-> at + 2 + n,
                    val |-> SizedString(Slice(pl, at + 2, n))]
    ELSE LET w == TyleWidth(plt.tyle) IN
         IF at + w > Len(pl) THEN [ok |-> FALSE, end |-> at, val |-> IntVal(0)]
         ELSE LET n == LE(Slice(pl, at, w)) IN
              [ok |-> TRUE, end |-> at + w,
               val |-> CASE k = "sint" -> IntVal(Signed(n, w))
                         [] k = "float" -> FloatVal(n)
                         [] OTHER -> IntVal(n)]

\* Reads the declared kinds KindOrder[i..5] one after the other from `at`,
\* adding an attribute per kind read.
RECURSIVE ReadKinds(_, _, _, _, _)
ReadKinds(pl, at, plt, i, attrs) ==
    IF i > Len(KindOrder) THEN [ok |-> TRUE, end |-> at, plt |-> plt, attrs |-> attrs]
    ELSE IF ~HasKind(plt, KindOrder[i]) THEN ReadKinds(pl, at, plt, i + 1, attrs)
    ELSE LET r == ReadKind(pl, at, plt, KindOrder[i]) IN
         IF ~r.ok THEN [ok |-> FALSE, end |-> at, plt |-> plt, attrs |-> attrs]
         ELSE ReadKinds(pl, r.end, plt, i + 1,
                        Append(attrs, [name |-> KindOrder[i], val |-> r.val]))

\* PayloadItem.from_io(s) with the cursor at `start`: the 4-byte type info, then
\* the value of each kind it declares.  [ok, end, plt, attrs]: attrs lists the
\* attributes the parsed object has, each with its value.
PayloadItem_from_io(pl, start) ==
    IF start + 4 > Len(pl)
    THEN [ok |-> FALSE, end |-> start, plt |-> PayloadType(0), attrs |-> <<>>]
    ELSE LET plt == PayloadType(LE(Slice(pl, start, 4))) IN
         ReadKinds(pl, start + 4, plt, 1, <<>>)

\* get_value (lines 33-37): the first attribute of 'str', 'uint', 'sint',
\* 'float', 'bool' the item has, or None.
hasattr(p, n) == \E j \in 1..Len(p.attrs) : p.attrs[j].name = n
getattr(p, n) == p.attrs[CHOOSE j \in 1..Len(p.attrs) : p.attrs[j].name = n].val
get_value(p) ==
    LET present == {i \in 1..Len(KindOrder) : hasattr(p, KindOrder[i])} IN
    IF present = {} THEN NoneVal
    ELSE Some(getattr(p, KindOrder[CHOOSE i \in present : \A j \in present : i <= j]))

\* A mutation of lines 46-48: the items decoded so far are returned.
UnknownTagResult_Prefix(ret) == Ok(ret)

\* Lines 46-48: a value of None logs the error and returns None, whatever ret
\* holds by then.
UnknownTagResult(ret) == None

\* A mutation of lines 53-55: the assert is missing, the last byte is dropped
\* whatever it is.
StripTerminator_NoAssert(d) ==
    [exc |-> "", value |-> SubSeq(d, 1, Len(d) - 1)]

\* A mutation of lines 53-55: the terminator is checked and left in place.
StripTerminator_Keep(d) ==
    IF d = <<>> THEN [exc |-> "IndexError", value |-> d]
    ELSE IF d[Len(d)] # 0 THEN [exc |-> "AssertionError", value |-> d]
    ELSE [exc |-> "", value |-> d]

\* Lines 53-55 for a string item whose bytes are `d`: value[-1] of an empty value
\* raises IndexError, a last byte other than NUL fails the assert, otherwise the
\* last byte is dropped.  [exc, value]: exc = "" when no exception is raised.
StripTerminator(d) ==
    IF d = <<>> THEN [exc |-> "IndexError", value |-> d]
    ELSE IF d[Len(d)] # 0 THEN [exc |-> "AssertionError", value |-> d]
    ELSE [exc |-> "", value |-> SubSeq(d, 1, Len(d) - 1)]

\* parse_payload (lines 39-57) from cursor `start` with `ret` collected so far.
RECURSIVE parse_payload_from(_, _, _)
parse_payload_from(pl, start, ret) ==
    IF ~(start < Len(pl)) THEN Ok(ret)
    ELSE LET item == PayloadItem_from_io(pl, start)
             value == get_value(item)
         IN
         IF ~item.ok THEN Raise("EOFError")
         ELSE IF value = NoneVal THEN UnknownTagResult(ret)
         ELSE LET v0 == value[1]
                  v1 == IF v0.t = "sized" THEN BytesVal(v0.data) ELSE v0
              IN
              IF item.plt.strg
              THEN LET st == StripTerminator(v1.data) IN
                   IF st.exc # "" THEN Raise(st.exc)
                   ELSE parse_payload_from(pl, item.end, Append(ret, BytesVal(st.value)))
              ELSE parse_payload_from(pl, item.end, Append(ret, v1))

parse_payload(pl) == parse_payload_from(pl, 0, <<>>)

\* DltMessage.payload (lines 99-103) on a message whose cache is `cache`:
\* [cache, result, parsed]: the cache afterwards, what the access produces, and
\* whether parse_payload ran.  An exception leaves the cache as it was.
payload(cache, raw) ==
    IF cache = None
    THEN LET r == parse_payload(raw) IN
         [cache |-> IF r.kind = "raise" THEN cache ELSE r, result |-> r,
          parsed |-> TRUE]
    ELSE [cache |-> cache, result |-> cache, parsed |-> FALSE]

----------------------------------------------------------------------------
(* The record layout (specification sections 3, 4.3 and 6: the DLT wire    *)
(* format).  StoredMessage and the native reader, which parse it, are not  *)
(* part of the source at hand; the layout below is the published one:      *)
(*   storage header  'DLT\x01', seconds (4, LE), sub-seconds (4, LE),      *)
(*                   ECU id (4)                                            *)
(*   standard header htyp (1: bit 0 extended header, bit 2 ECU id, bit 3   *)
(*                   session id, bit 4 timestamp), counter (1), length (2, *)
(*                   BE: standard header + extended header + payload),     *)
(*                   then the optional ECU id, session id, timestamp (4    *)
(*                   each, BE)                                             *)
(*   extended header msin (1: bit 0 verbose), argument count (1), app id   *)
(*                   (4), context id (4)                                   *)
(*   payload         the rest of the declared length                       *)

\* The storage header's signature, b'DLT\x01' (line 175).
Signature == <<68, 76, 84, 1>>

StorageHeaderSize == 16
StandardHeaderSize == 4
ExtendedHeaderSize == 10

\* Decodes the record that starts at offset s of `bytes`, of which the first
\* `avail` bytes exist.  status is "ok", "incomplete" (the bytes end before the
\* record does) or "corrupt" (no signature at s, or a declared length smaller
\* than the headers it must cover).  Modelled from the specification (4.3).
DecodeRecord(bytes, s) ==
    LET n == Len(bytes)
        bad(st) == [status |-> st, start |-> s, end |-> Min(s + 4, n),
                    ts_sec |-> 0, ts_msec |-> 0, has_tmsp |-> FALSE, tmsp |-> 0,
                    has_ext |-> FALSE, app |-> <<>>, ctx |-> <<>>,
                    verbose |-> FALSE, payload |-> <<>>, message |-> <<>>]
    IN
    IF s + 4 > n THEN bad("incomplete")
    ELSE IF Slice(bytes, s, 4) # Signature THEN bad("corrupt")
    ELSE IF s + StorageHeaderSize + StandardHeaderSize > n THEN bad("incomplete")
    ELSE LET h == s + StorageHeaderSize
             htyp == bytes[h + 1]
             len == BE(Slice(bytes, h + 2, 2))
             ueh == Bit(htyp, 0)
             weid == Bit(htyp, 2)
             wsid == Bit(htyp, 3)
             wtms == Bit(htyp, 4)
             tmspAt == h + StandardHeaderSize + (IF weid THEN 4 ELSE 0)
                         + (IF wsid THEN 4 ELSE 0)
             extAt == tmspAt + (IF wtms THEN 4 ELSE 0)
             payAt == extAt + (IF ueh THEN ExtendedHeaderSize ELSE 0)
             payLen == len - (payAt - h)
         IN
         IF payAt > n THEN bad("incomplete")
         ELSE IF payLen < 0 THEN bad("corrupt")
         ELSE IF h + len > n THEN bad("incomplete")
         ELSE [status |-> "ok", start |-> s, end |-> h + len,
               ts_sec |-> LE(Slice(bytes, s + 4, 4)),
               ts_msec |-> LE(Slice(bytes, s + 8, 4)),
               has_tmsp |-> wtms,
               tmsp |-> IF wtms THEN BE(Slice(bytes, tmspAt, 4)) ELSE 0,
               has_ext |-> ueh,
               app |-> IF ueh THEN Slice(bytes, extAt + 2, 4) ELSE <<>>,
               ctx |-> IF ueh THEN Slice(bytes, extAt + 6, 4) ELSE <<>>,
               verbose |-> ueh /\ Bit(bytes[extAt + 1], 0),
               payload |-> Slice(bytes, payAt, payLen),
               message |-> Slice(bytes, s, h + len - s)]

\* StoredMessage.from_io(fd) with fd at offset s of the file (line 168): the
\* decoded record, or an exception (ok = FALSE) when the record is corrupt or
\* the file ends before it does; `end` is where fd is left.
StoredMessage_from_io(file, s) ==
    LET r == DecodeRecord(file, s) IN
    [r EXCEPT !.status = IF r.status = "ok" THEN "ok" ELSE "raise"]

----------------------------------------------------------------------------
(* DltMessage (lines 59-97).                                               *)

\* bytes.replace(b'\0', b'') (lines 76-77).
StripNul(bs) == SelectSeq(bs, LAMBDA b : b # 0)

\* bytes.decode(): the text of ASCII bytes, as code points; a byte of 128 or
\* more raises UnicodeDecodeError (the ids drawn here hold no multi-byte UTF-8
\* sequence).
Decodes(bs) == \A i \in 1..Len(bs) : bs[i] < 128

\* DltMessage.loadn (lines 71-88) on a decoded record: the message, or
\* raised = TRUE when an id does not decode.  ts stands for 1e-4 * ts (line 82)
\* and date for sec + msec * 1e-3 (line 84): the numbers are kept unscaled.
loadn(raw) ==
    LET idsDecode == raw.has_ext =>
                        (Decodes(StripNul(raw.app)) /\ Decodes(StripNul(raw.ctx)))
    IN
    [raised |-> ~idsDecode,
     app |-> IF raw.has_ext /\ idsDecode THEN Some(StripNul(raw.app)) ELSE NoneVal,
     ctx |-> IF raw.has_ext /\ idsDecode THEN Some(StripNul(raw.ctx)) ELSE NoneVal,
     verbose |-> IF raw.has_ext THEN Some(raw.verbose) ELSE NoneVal,
     ts |-> IF raw.has_tmsp /\ raw.tmsp # 0 THEN Some(raw.tmsp) ELSE NoneVal,
     date |-> [sec |-> raw.ts_sec, msec |-> raw.ts_msec],
     raw_payload |-> raw.payload,
     raw_data |-> raw.message]

\* DltMessage(raw, raw_data) (lines 60-69): raw_data is stored in _raw_data
\* (line 68) and loadn then replaces it with the record's own bytes (line 88).
DltMessage(raw, raw_data) == loadn(raw)

\* Python truth of an optional bool: None and False are false.
Truthy(v) == v # NoneVal /\ v[1]

\* DltMessage.match (lines 93-97); fs is a list of (app, ctx) pairs, each field
\* an optional id.
match(msg, fs) ==
    \E i \in 1..Len(fs) :
        /\ fs[i].app = NoneVal \/ msg.app = fs[i].app
        /\ fs[i].ctx = NoneVal \/ msg.ctx = fs[i].ctx

----------------------------------------------------------------------------
(* The payloads the accessor is exercised on.                              *)

\* Most items a payload is built from.
MaxPayloadItems == 2
\* Most accesses of .payload on one message.
MaxAccess == 3

StrItem(d) == [k |-> "str", data |-> d, w |-> 0, n |-> 0]
NumItem(k, w, n) == [k |-> k, data |-> <<>>, w |-> w, n |-> n]

\* The item descriptions: strings (terminated, unterminated, empty, ending in
\* two NULs), numbers of each kind, an item whose tag declares none of the five
\* kinds ("unknown"), and a string cut short by the end of the payload ("cut").
ItemTemplates ==
    {StrItem(d) : d \in {<<>>, <<0>>, <<104>>, <<104, 0>>, <<104, 0, 0>>,
                          <<104, 105, 0>>}}
    \cup {NumItem("uint", 1, 7), NumItem("uint", 2, 258), NumItem("sint", 1, 255),
          NumItem("bool", 1, 1), NumItem("float", 4, 1065353216),
          NumItem("unknown", 0, 0), NumItem("cut", 0, 0)}

\* The width code of a byte width.
TyleOf(w) == CASE w = 1 -> 1 [] w = 2 -> 2 [] w = 4 -> 3 [] w = 8 -> 4 [] OTHER -> 5

\* The wire bytes of an item.
EncodeItem(it) ==
    CASE it.k = "str" -> EncLE(2 ^ 9, 4) \o EncLE(Len(it.data), 2) \o it.data
      [] it.k = "uint" -> EncLE(2 ^ 6 + TyleOf(it.w), 4) \o EncLE(it.n, it.w)
      [] it.k = "sint" -> EncLE(2 ^ 5 + TyleOf(it.w), 4) \o EncLE(it.n, it.w)
      [] it.k = "bool" -> EncLE(2 ^ 4 + TyleOf(it.w), 4) \o EncLE(it.n, it.w)
      [] it.k = "float" -> EncLE(2 ^ 7 + TyleOf(it.w), 4) \o EncLE(it.n, it.w)
      [] it.k = "unknown" -> EncLE(2 ^ 10, 4)
      [] OTHER -> EncLE(2 ^ 9, 4) \o EncLE(5, 2) \o <<104>>

EncodePayload(its) == Concat([i \in 1..Len(its) |-> EncodeItem(its[i])])

\* Sequences over S of length at most n.
SeqsUpTo(S, n) == UNION {[1..k -> S] : k \in 0..n}

\* The value parse_payload is to give for a well-formed item.
ExpectedValue(it) ==
    CASE it.k = "str" -> BytesVal(SubSeq(it.data, 1, Len(it.data) - 1))
      [] it.k = "sint" -> IntVal(Signed(it.n, it.w))
      [] it.k = "float" -> FloatVal(it.n)
      [] OTHER -> IntVal(it.n)

Terminated(it) == it.k = "str" /\ it.data # <<>> /\ it.data[Len(it.data)] = 0
Unterminated(it) == it.k = "str" /\ ~Terminated(it)
\* An item parse_payload decodes to a value.
Decodable(it) == Terminated(it) \/ it.k \in {"uint", "sint", "bool", "float"}

\* The first item of `its` that is not decodable, 0 when all are.
FirstBad(its) ==
    LET bad == {i \in 1..Len(its) : ~Decodable(its[i])} IN
    IF bad = {} THEN 0 ELSE CHOOSE i \in bad : \A j \in bad : i <= j

InitDecodeIdle ==
    /\ mode = "payload" /\ data = <<>> /\ items = <<>> /\ filters = NoneVal
    /\ capture_raw = FALSE /\ pos = 0 /\ pc = "done" /\ rpc = "read"
    /\ buf = <<>> /\ cap = 0 /\ out = <<>> /\ trace = <<>>
    /\ chunking = [one |-> TRUE, max |-> TRUE]

InitPayload ==
    /\ InitDecodeIdle
    /\ p_items \in SeqsUpTo(ItemTemplates, MaxPayloadItems)
    \* a string cut short by the end of the payload is the payload's last item
    /\ \A i \in 1..Len(p_items) - 1 : p_items[i].k # "cut"
    /\ raw_payload = EncodePayload(p_items)
    /\ payload_cache = None
    /\ parse_calls = 0
    /\ results = <<>>

\* One access of msg.payload by the consumer.
AccessPayload ==
    /\ mode = "payload"
    /\ Len(results) < MaxAccess
    /\ LET a == payload(payload_cache, raw_payload) IN
       /\ payload_cache' = a.cache
       /\ parse_calls' = parse_calls + (IF a.parsed THEN 1 ELSE 0)
       /\ results' = Append(results, a.result)
    /\ UNCHANGED <<raw_payload, p_items>>
    /\ UNCHANGED decodeVars

NextPayload == AccessPayload

SpecPayload == InitPayload /\ [][NextPayload]_vars

----------------------------------------------------------------------------
(* The inputs the decoders are run on.                                     *)

\* Bytes of unused capacity the native buffer is created with, and grows by
\* when none is left.
BufChunk == 8

\* Most records in an input (garbage between them comes on top).
MaxRecords == 2
\* Most pieces (records, garbage) in an input of stream mode.
MaxStreamPieces == 2
\* Most filler bytes in a piece of garbage.
MaxGarbage == 2

APP1 == <<65, 80, 80, 49>>
APP2 == <<65, 80, 50, 0>>
CTX1 == <<67, 84, 88, 49>>
CTX2 == <<67, 84, 50, 0>>
BADID == <<255, 80, 80, 49>>

\* A record description: ueh/wtms say which optional headers are present,
\* lenDelta is added to the true value of the length field (0: well-formed).
Rec(ueh, verbose, app, ctx, wtms, tmsp, pl, lenDelta) ==
    [k |-> "rec", ueh |-> ueh, verbose |-> verbose, app |-> app, ctx |-> ctx,
     wtms |-> wtms, tmsp |-> tmsp, payload |-> pl, lenDelta |-> lenDelta,
     bytes |-> <<>>]
Garbage(bs) ==
    [k |-> "garbage", ueh |-> FALSE, verbose |-> FALSE, app |-> <<>>, ctx |-> <<>>,
     wtms |-> FALSE, tmsp |-> 0, payload |-> <<>>, lenDelta |-> 0, bytes |-> bs]

HelloPayload == EncodePayload(<<StrItem(<<104, 0>>)>>)

\* Well-formed records: verbose ones of two applications, with and without the
\* timestamp field (one with tick value 0), a non-verbose one, one without an
\* extended header.
GoodRecords ==
    {Rec(TRUE, TRUE, APP1, CTX1, TRUE, 5, HelloPayload, 0),
     Rec(TRUE, TRUE, APP2, CTX1, TRUE, 0, <<>>, 0),
     Rec(TRUE, TRUE, APP1, CTX2, FALSE, 0, <<>>, 0),
     Rec(TRUE, FALSE, APP1, CTX1, FALSE, 0, <<>>, 0),
     Rec(FALSE, FALSE, <<>>, <<>>, FALSE, 0, <<>>, 0)}

\* Damaged records: a length field beyond the end of any input, a length field
\* smaller than the headers, an application id that is not text.
BadRecords ==
    {Rec(TRUE, TRUE, APP1, CTX1, FALSE, 0, HelloPayload, 1000),
     Rec(TRUE, TRUE, APP1, CTX1, FALSE, 0, <<>>, -12),
     Rec(TRUE, TRUE, BADID, CTX1, FALSE, 0, <<>>, 0)}

Filler(n) == [i \in 1..n |-> 65]

\* A 20-byte run that starts with the signature and reads as a whole record
\* without optional headers or payload.
FakeRecord == Signature \o Filler(12) \o <<32, 0, 0, 4>>

\* A 20-byte run that starts with the signature and reads as the headers of a
\* record whose 4 payload bytes are yet to come.
FakeHeader == Signature \o Filler(12) \o <<32, 0, 0, 8>>

\* Garbage: filler bytes, the first three bytes of the signature, the signature
\* followed by filler bytes, a fake record, a fake header.
Garbages ==
    {Garbage(Filler(n)) : n \in 1..MaxGarbage}
    \cup {Garbage(SubSeq(Signature, 1, 3))}
    \cup {Garbage(Signature \o Filler(n)) : n \in 0..MaxGarbage}
    \cup {Garbage(FakeRecord), Garbage(FakeHeader)}

\* The wire bytes of the piece `it` placed as piece number idx of an input; a
\* record's storage timestamp is idx seconds, 7 sub-second units.
EncodePiece(it, idx) ==
    IF it.k = "garbage" THEN it.bytes
    ELSE LET opt == IF it.wtms THEN EncBE(it.tmsp, 4) ELSE <<>>
             ext == IF it.ueh
                    THEN <<(IF it.verbose THEN 1 ELSE 0) + 64, 1>> \o it.app \o it.ctx
                    ELSE <<>>
             len == StandardHeaderSize + Len(opt) + Len(ext) + Len(it.payload)
                      + it.lenDelta
             htyp == 32 + (IF it.ueh THEN 1 ELSE 0) + (IF it.wtms THEN 16 ELSE 0)
         IN Signature \o EncLE(idx, 4) \o EncLE(7, 4) \o <<69, 67, 85, 49>>
              \o <<htyp, 0>> \o EncBE(len, 2) \o opt \o ext \o it.payload

EncodeInput(its) == Concat([i \in 1..Len(its) |-> EncodePiece(its[i], i)])

\* The offset of piece i in the input built from `its`.
OffsetOf(its, i) == Len(EncodeInput(SubSeq(its, 1, i - 1)))

\* The inputs: up to MaxRecords records, with at most one piece of garbage
\* anywhere among them.
Inputs ==
    LET recs == SeqsUpTo(GoodRecords \cup BadRecords, MaxRecords)
        withGarbage ==
            {SubSeq(rs, 1, at) \o <<g>> \o SubSeq(rs, at + 1, Len(rs)) :
                <<rs, at, g>> \in
                    {t \in recs \X (0..MaxRecords) \X Garbages : t[2] <= Len(t[1])}}
    IN recs \cup withGarbage

IsGood(it) == it \in GoodRecords

\* The message a record decodes to when it is decoded on its own, as piece idx.
MessageOf(it, idx) == loadn(DecodeRecord(EncodePiece(it, idx), 0))

\* Filter ids as text.
Id(bs) == Some(StripNul(bs))
Pair(a, c) == [app |-> a, ctx |-> c]

\* The filters arguments tried: None, the empty list, an exact pair, pairs with
\* a wildcard.
FilterChoices ==
    {NoneVal, Some(<<>>), Some(<<Pair(Id(APP1), Id(CTX1))>>),
     Some(<<Pair(Id(APP1), NoneVal)>>), Some(<<Pair(NoneVal, Id(CTX1))>>)}

\* The filters arguments tried in stream mode.
StreamFilterChoices == {NoneVal, Some(<<Pair(Id(APP1), Id(CTX1))>>)}

----------------------------------------------------------------------------
(* File mode: class DltFile (lines 152-203).                               *)

\* Lines 171-180 after a failed parse at `start`, with fd left at `failPos`:
\* the offset fd ends at.  Each probe seeks to so and reads 4 bytes (fewer at
\* the end of the file); a hit seeks back to so.
RECURSIVE ResyncFrom(_, _, _)
ResyncFrom(file, so, fdPos) ==
    IF ~(so < Len(file)) THEN fdPos
    ELSE LET got == Slice(file, so, Min(4, Len(file) - so)) IN
         IF got = Signature THEN so
         ELSE ResyncFrom(file, so + 1, so + Len(got))

\* A mutation of line 171: the scan starts at the failed offset itself.
Resync_NoAdvance(file, start, failPos) == ResyncFrom(file, start, failPos)

\* A mutation of lines 171-180: no scan, fd stays where the failed parse left it.
Resync_NoScan(file, start, failPos) == failPos

\* Line 171: the scan starts one byte after the offset of the failed parse.
Resync(file, start, failPos) == ResyncFrom(file, start + 1, failPos)

\* A mutation of lines 186-187: the bytes are not read, fd stays at start_offset.
CaptureRaw_Rewind(file, start_offset, end_offset) ==
    [raw_data |-> Some(<<>>), pos |-> start_offset]

\* Lines 184-187 (capture_raw set) after a record parsed from start_offset to
\* end_offset: the bytes between are read again and fd is put back.
CaptureRaw(file, start_offset, end_offset) ==
    [raw_data |-> Some(Slice(file, start_offset, end_offset - start_offset)),
     pos |-> end_offset]

\* A mutation of line 189: the message's verbosity is not looked at.
Retained_NoVerboseCheck(msg, fs) == fs # NoneVal => match(msg, fs[1])

\* A mutation of lines 190-192: the filters are not looked at.
Retained_NoFilter(msg, fs) == Truthy(msg.verbose)

\* Lines 189-194: whether the message is returned to the caller.
Retained(msg, fs) ==
    /\ Truthy(msg.verbose)
    /\ fs # NoneVal => match(msg, fs[1])

\* One pass of the loop of DltFile.get_next_message (lines 165-194) with fd at
\* `at`: [pos, outcome, msg]; outcome is "resync" (parse failed, lines 169-181),
\* "raised" (DltMessage() raised, line 188), "skip" (not verbose or filtered
\* out) or "emit" (line 193-194, the message is returned).
FilePass(file, at, fs, capture) ==
  \* sm, the record from_io returns, is evaluated once and the pass is
  \* computed from it.
  CHOOSE p \in {
    LET cr == IF capture THEN CaptureRaw(file, at, sm.end)
              ELSE [raw_data |-> NoneVal, pos |-> sm.end]
        msg == DltMessage(sm, cr.raw_data)
    IN
    IF sm.status # "ok"
    THEN [pos |-> Resync(file, at, sm.end), outcome |-> "resync", msg |-> msg]
    ELSE IF msg.raised THEN [pos |-> cr.pos, outcome |-> "raised", msg |-> msg]
    ELSE IF Retained(msg, fs) THEN [pos |-> cr.pos, outcome |-> "emit", msg |-> msg]
    ELSE [pos |-> cr.pos, outcome |-> "skip", msg |-> msg]
    : sm \in {StoredMessage_from_io(file, at)}} : TRUE

InitPayloadIdle ==
    /\ raw_payload = <<>> /\ p_items = <<>> /\ payload_cache = None
    /\ parse_calls = 0 /\ results = <<>>

Init ==
    /\ InitPayloadIdle
    /\ mode \in {"file", "stream"}
    /\ items \in Inputs
    /\ mode = "stream" => Len(items) <= MaxStreamPieces
    /\ data = EncodeInput(items)
    /\ filters \in (IF mode = "file" THEN FilterChoices ELSE StreamFilterChoices)
    /\ capture_raw \in (IF mode = "file" THEN BOOLEAN ELSE {FALSE})
    /\ pos = 0 /\ pc = "run" /\ rpc = "read"
    /\ buf = <<>> /\ cap = (IF mode = "stream" THEN BufChunk ELSE 0)
    /\ out = <<>> /\ trace = <<>>
    /\ chunking = [one |-> TRUE, max |-> TRUE]

\* DltFile.get_next_message, one pass of its loop that parses a record
\* (lines 165-194), and __iter__'s yield of the message it returns.
FileParse ==
    /\ mode = "file" /\ pc = "run"
    /\ pos # Len(data)
    /\ \E p \in {FilePass(data, pos, filters, capture_raw)} :
       /\ pos' = p.pos
       /\ pc' = IF p.outcome = "raised" THEN "raised" ELSE "run"
       /\ out' = IF p.outcome = "emit" THEN Append(out, p.msg) ELSE out
       /\ trace' = Append(trace, [at |-> pos, outcome |-> p.outcome, next |-> p.pos])
    /\ UNCHANGED <<mode, data, items, filters, capture_raw, rpc, buf, cap, chunking>>
    /\ UNCHANGED payloadVars

\* DltFile.get_next_message at the end of the file (lines 164-165, 196): it
\* returns None and __iter__ returns (lines 201-202).
FileEnd ==
    /\ mode = "file" /\ pc = "run"
    /\ pos = Len(data)
    /\ pc' = "done"
    /\ UNCHANGED <<mode, data, items, filters, capture_raw, pos, rpc, buf, cap, out,
                   trace, chunking>>
    /\ UNCHANGED payloadVars

\* A later call of DltFile.get_next_message after a call that raised (line
\* 188 is outside the try): fd stands after the record that made DltMessage()
\* raise, and the loop of line 165 goes on from there.
FileRetry ==
    /\ mode = "file" /\ pc = "raised"
    /\ pc' = "run"
    /\ UNCHANGED <<mode, data, items, filters, capture_raw, pos, rpc, buf, cap, out,
                   trace, chunking>>
    /\ UNCHANGED payloadVars

----------------------------------------------------------------------------
(* Stream mode: class DltReader (lines 120-149) over the native reader.    *)
(* The native reader (dltpy.native.native_dltreader.DltReader) is not part *)
(* of the source at hand; NativeRead, GetBuffer and ConsumeMessage model   *)
(* it from the specification's sections 4.1, 4.2, 4.5 and 4.7.             *)

\* The smallest offset >= from at which the signature lies within bs, or -1.
NextSignature(bs, from) ==
    LET hits == {t \in from..(Len(bs) - 4) : Slice(bs, t, 4) = Signature} IN
    IF hits = {} THEN -1 ELSE CHOOSE t \in hits : \A u \in hits : t <= u

\* The native filter (section 4.5): no pairs, or a pair that matches the ids.
NativeMatches(rec, fs) ==
    \/ fs = <<>>
    \/ match([app |-> IF rec.has_ext THEN Some(StripNul(rec.app)) ELSE NoneVal,
              ctx |-> IF rec.has_ext THEN Some(StripNul(rec.ctx)) ELSE NoneVal], fs)

\* rdr.read() (section 4.7) on the valid region bs: [ok, buf, rec].  Garbage
\* before the next signature and records the filter rejects are consumed; ok
\* says a complete, matching record now starts the region.  Without a complete
\* record, or with no signature in sight, more bytes are asked for.
RECURSIVE NativeRead(_, _)
NativeRead(bs, fs) ==
    LET r == DecodeRecord(bs, 0) IN
    IF r.status = "incomplete" THEN [ok |-> FALSE, buf |-> bs, rec |-> r]
    ELSE IF r.status = "corrupt"
    THEN LET t == NextSignature(bs, 1) IN
         IF t = -1 THEN [ok |-> FALSE, buf |-> bs, rec |-> r]
         ELSE NativeRead(SubSeq(bs, t + 1, Len(bs)), fs)
    ELSE IF ~NativeMatches(r, fs) THEN NativeRead(SubSeq(bs, r.end + 1, Len(bs)), fs)
    ELSE [ok |-> TRUE, buf |-> bs, rec |-> r]

\* rdr.get_buffer() (section 4.2): the capacity afterwards and the length of the
\* writable window; the buffer grows when no unused capacity remains.
GetBuffer(capacity, valid) ==
    IF capacity - valid > 0 THEN [cap |-> capacity, window |-> capacity - valid]
    ELSE [cap |-> capacity + BufChunk, window |-> BufChunk]

\* rdr.consume_message() (section 4.2): the record at the start of the valid
\* region is released.
ConsumeMessage(bs, rec) == SubSeq(bs, rec.end + 1, Len(bs))

\* The filters DltReader hands to the native reader (line 123).
StreamFilters(fs) == IF fs = NoneVal \/ fs[1] = <<>> THEN <<>> ELSE fs[1]

\* A mutation of lines 147-148: every message is yielded.
Yielded_All(msg) == TRUE

\* Line 147: whether __iter__ yields the message get_next_message returned.
Yielded(msg) == Truthy(msg.verbose)

\* A mutation of line 133: a read that does not fill the window ends the
\* iteration.
EndOfInput_ShortRead(l, window) == l < window

\* Line 133: whether readinto's return value l ends the iteration.
EndOfInput(l, window) == l = 0

\* DltReader.get_next_message after a read() (lines 129, 137-139) and
\* __iter__'s handling of what it returns (lines 144-149):
\* [buf, rpc, pc, out, outcome, len]; len is the length of the record consumed.
StreamAfterRead(bs, fs, yielded) ==
    LET r == NativeRead(bs, StreamFilters(fs))
        m == DltMessage(r.rec, NoneVal)
    IN
    IF ~r.ok
    THEN [buf |-> r.buf, rpc |-> "fill", pc |-> "run", out |-> yielded,
          outcome |-> "fill", len |-> 0]
    ELSE IF m.raised
    THEN [buf |-> r.buf, rpc |-> "read", pc |-> "raised", out |-> yielded,
          outcome |-> "raised", len |-> 0]
    ELSE [buf |-> ConsumeMessage(r.buf, r.rec), rpc |-> "read", pc |-> "run",
          out |-> IF Yielded(m) THEN Append(yielded, m) ELSE yielded,
          outcome |-> IF Yielded(m) THEN "emit" ELSE "skip", len |-> r.rec.end]

\* rdr.read() and what follows it in get_next_message and __iter__ (lines 129,
\* 137-139, 144-149).
StreamRead ==
    /\ mode = "stream" /\ pc = "run" /\ rpc = "read"
    /\ LET a == StreamAfterRead(buf, filters, out) IN
       /\ buf' = a.buf
       /\ rpc' = a.rpc
       /\ pc' = a.pc
       /\ out' = a.out
       /\ trace' = IF a.outcome = "fill" THEN trace
                   ELSE Append(trace, [at |-> pos - Len(a.buf) - a.len,
                                       outcome |-> a.outcome,
                                       next |-> pos - Len(a.buf)])
    /\ UNCHANGED <<mode, data, items, filters, capture_raw, pos, cap, chunking>>
    /\ UNCHANGED payloadVars

\* A mutation of line 136: update_buffer is given the length of the window
\* instead of l, so the valid region takes in bytes nobody wrote.
StreamAfterFill_Stale(bs, capacity, src, srcPos, l) ==
    LET b == GetBuffer(capacity, Len(bs)) IN
    IF l = 0
    THEN [buf |-> bs, cap |-> b.cap, pos |-> srcPos, rpc |-> "fill", pc |-> "done"]
    ELSE [buf |-> bs \o Slice(src, srcPos, l) \o [i \in 1..(b.window - l) |-> 0],
          cap |-> b.cap, pos |-> srcPos + l, rpc |-> "read", pc |-> "run"]

\* The body of the loop of get_next_message after a failed read() (lines
\* 130-136) when readinto wrote l bytes from offset srcPos of the source into
\* the window: [buf, cap, pos, rpc, pc].
StreamAfterFill(bs, capacity, src, srcPos, l) ==
    LET b == GetBuffer(capacity, Len(bs)) IN
    IF EndOfInput(l, b.window)
    THEN [buf |-> bs, cap |-> b.cap, pos |-> srcPos, rpc |-> "fill", pc |-> "done"]
    ELSE [buf |-> bs \o Slice(src, srcPos, l), cap |-> b.cap, pos |-> srcPos + l,
          rpc |-> "read", pc |-> "run"]

\* The chunk lengths readinto may return: 0 at the end of the source, otherwise
\* at least one byte and at most the window and what the source has left.
ChunkChoices(capacity, valid, left) ==
    IF left = 0 THEN {0} ELSE 1..Min(GetBuffer(capacity, valid).window, left)

\* The longest chunk readinto may return.
MaxChunk(capacity, valid, left) == Min(GetBuffer(capacity, valid).window, left)

\* DltReader.get_next_message and __iter__ run to the end on the source `src`
\* when every readinto fills all it can (the source delivers its bytes in one
\* chunk, as far as the window allows): [out, pc].
RECURSIVE OneChunkRun(_, _, _, _, _, _, _)
OneChunkRun(src, fs, bs, capacity, srcPos, yielded, rp) ==
    IF rp = "read"
    THEN LET a == StreamAfterRead(bs, fs, yielded) IN
         IF a.pc = "raised" THEN [out |-> a.out, pc |-> "raised"]
         ELSE OneChunkRun(src, fs, a.buf, capacity, srcPos, a.out, a.rpc)
    ELSE LET f == StreamAfterFill(bs, capacity, src, srcPos,
                                  MaxChunk(capacity, Len(bs), Len(src) - srcPos)) IN
         IF f.pc = "done" THEN [out |-> yielded, pc |-> "done"]
         ELSE OneChunkRun(src, fs, f.buf, f.cap, f.pos, yielded, f.rpc)

\* get_buffer, readinto and update_buffer after a failed read() (lines 130-136).
StreamFill ==
    /\ mode = "stream" /\ pc = "run" /\ rpc = "fill"
    /\ \E l \in ChunkChoices(cap, Len(buf), Len(data) - pos) :
          LET f == StreamAfterFill(buf, cap, data, pos, l) IN
          /\ buf' = f.buf
          /\ cap' = f.cap
          /\ pos' = f.pos
          /\ rpc' = f.rpc
          /\ pc' = f.pc
          /\ chunking' =
               IF l = 0 THEN chunking
               ELSE [one |-> chunking.one /\ l = 1,
                     max |-> chunking.max
                             /\ l = MaxChunk(cap, Len(buf), Len(data) - pos)]
    /\ UNCHANGED <<mode, data, items, filters, capture_raw, out, trace>>
    /\ UNCHANGED payloadVars

Next == FileParse \/ FileEnd \/ FileRetry \/ StreamRead \/ StreamFill

Spec == Init /\ [][Next]_vars

\* File mode on its own, with a caller that keeps calling get_next_message and
\* a loop whose every pass is carried out.
\* Before a DltFile is constructed: no file has been chosen.
InitFile ==
    /\ InitPayloadIdle
    /\ mode = "file" /\ pc = "new"
    /\ items = <<>> /\ data = <<>> /\ filters = NoneVal /\ capture_raw = FALSE
    /\ pos = 0 /\ rpc = "read" /\ buf = <<>> /\ cap = 0
    /\ out = <<>> /\ trace = <<>>
    /\ chunking = [one |-> TRUE, max |-> TRUE]

\* DltFile.__init__ (lines 153-160) on a file, with the arguments it is given:
\* the file is opened, fd stands at offset 0.
FileOpen ==
    /\ mode = "file" /\ pc = "new"
    /\ items' \in Inputs
    /\ data' = EncodeInput(items')
    /\ filters' \in FilterChoices
    /\ capture_raw' \in BOOLEAN
    /\ pos' = 0 /\ pc' = "run"
    /\ UNCHANGED <<mode, rpc, buf, cap, out, trace, chunking>>
    /\ UNCHANGED payloadVars

NextFile == FileOpen \/ FileParse \/ FileEnd \/ FileRetry

SpecFile == InitFile /\ [][NextFile]_vars /\ WF_vars(NextFile)

----------------------------------------------------------------------------
(* Claims about the two readers, checked under Spec.                       *)

AllGood == \A i \in 1..Len(items) : IsGood(items[i])
IsVerbose(it) == it.k = "rec" /\ it.ueh /\ it.verbose

\* The messages of the pieces i.. of `its` that satisfy keep, in order.
RECURSIVE MessagesFrom(_, _, _)
MessagesFrom(its, i, verboseOnly) ==
    IF i > Len(its) THEN <<>>
    ELSE (IF verboseOnly => IsVerbose(its[i]) THEN <<MessageOf(its[i], i)>> ELSE <<>>)
           \o MessagesFrom(its, i + 1, verboseOnly)

\* C1 (as claimed): an input of N well-formed records, read without filters in
\* either mode and with any chunking, yields N messages in record order.
C1_AllRecordsYielded ==
    (pc = "done" /\ AllGood /\ filters = NoneVal) =>
        out = MessagesFrom(items, 1, FALSE)

\* C1 (amended): an input of N well-formed records, read without filters in
\* either mode and with any chunking, yields the messages of its verbose
\* records, in record order; N messages when all N records are verbose.
C1_VerboseRecordsYielded ==
    (pc = "done" /\ AllGood /\ filters = NoneVal) =>
        /\ out = MessagesFrom(items, 1, TRUE)
        /\ (\A i \in 1..Len(items) : IsVerbose(items[i])) => Len(out) = Len(items)

\* C1 witness: a stream of two verbose records, delivered byte by byte, has been
\* read to its end and both messages were yielded.
C1_Witness ==
    /\ mode = "stream" /\ pc = "done" /\ filters = NoneVal /\ AllGood
    /\ Len(items) = 2 /\ Len(out) = 2
    /\ chunking.one /\ ~chunking.max

\* C2 (as claimed): in file mode, with garbage between two valid (verbose)
\* records, the second record is parsed at its own first byte and returned with
\* its own fields.
C2_SecondRecordDecoded ==
    (/\ mode = "file" /\ pc = "done" /\ filters = NoneVal
     /\ Len(items) = 3 /\ items[2].k = "garbage"
     /\ IsGood(items[1]) /\ IsVerbose(items[1])
     /\ IsGood(items[3]) /\ IsVerbose(items[3])) =>
        /\ \E i \in 1..Len(trace) :
              trace[i].at = OffsetOf(items, 3) /\ trace[i].outcome = "emit"
        /\ out # <<>> /\ out[Len(out)] = MessageOf(items[3], 3)

\* What the filter is to decide: no pairs configured, or a pair whose app and
\* ctx both are a wildcard or equal to the message's.
FilterWanted(msg, fs) ==
    \/ fs = NoneVal
    \/ fs[1] = <<>>
    \/ \E i \in 1..Len(fs[1]) :
          /\ fs[1][i].app = NoneVal \/ fs[1][i].app = msg.app
          /\ fs[1][i].ctx = NoneVal \/ fs[1][i].ctx = msg.ctx

\* C3 (as claimed): in file mode a parsed verbose record is returned exactly
\* when the filter wants it: always with no pairs configured (None or the
\* empty list), otherwise when some pair matches app and ctx, wildcards
\* matching anything.
C3_FilterSemantics ==
    mode = "file" =>
        \A i \in 1..Len(trace) :
            trace[i].outcome \in {"emit", "skip"} =>
                LET m == loadn(DecodeRecord(data, trace[i].at)) IN
                Truthy(m.verbose) =>
                    (trace[i].outcome = "emit" <=> FilterWanted(m, filters))

\* C4: every message stream-mode iteration has yielded is verbose.
C4_StreamYieldsVerboseOnly ==
    mode = "stream" => \A i \in 1..Len(out) : out[i].verbose = Some(TRUE)

\* C4 witness: with no filter configured a non-verbose record and a record
\* without extended header were consumed and not yielded.
C4_Witness ==
    /\ mode = "stream" /\ pc = "done" /\ filters = NoneVal
    /\ Len(items) = 2 /\ AllGood
    /\ items[1].ueh /\ ~items[1].verbose /\ ~items[2].ueh
    /\ Len(trace) = 2 /\ trace[1].outcome = "skip" /\ trace[2].outcome = "skip"
    /\ out = <<>>

\* C6: however readinto splits the source's bytes, stream-mode iteration ends
\* the way it ends when every fill delivers all it can, with the same messages.
C6_ChunkingIndependent ==
    (mode = "stream" /\ pc \in {"done", "raised"}) =>
        LET g == OneChunkRun(data, filters, <<>>, BufChunk, 0, <<>>, "read") IN
        out = g.out /\ pc = g.pc

\* C6 witness: a stream longer than the buffer, with garbage before a record,
\* was delivered in 1-byte chunks and read to its end.
C6_Witness ==
    /\ mode = "stream" /\ pc = "done" /\ chunking.one /\ ~chunking.max
    /\ Len(items) = 2 /\ items[1].k = "garbage" /\ Len(out) = 1

\* C9: a file of a valid record followed by a record whose length field exceeds
\* the file: nothing is raised; the only failed parse is the one at record 2 and
\* its scan reaches the end of the file; in the end record 1 has been yielded
\* (if it is verbose and passes the filter), get_next_message has returned None
\* and the offset is the file length.
C9_CorruptLengthEndsCleanly ==
    (/\ mode = "file" /\ Len(items) = 2 /\ IsGood(items[1])
     /\ items[2].k = "rec" /\ items[2].lenDelta > 0) =>
        /\ pc # "raised"
        /\ \A i \in 1..Len(trace) :
              trace[i].outcome = "resync" =>
                  /\ i = 2 /\ trace[i].at = OffsetOf(items, 2)
                  /\ trace[i].next = Len(data)
        /\ pc = "done" =>
              /\ pos = Len(data)
              /\ Len(trace) = 2 /\ trace[2].outcome = "resync"
              /\ out = IF Retained(MessageOf(items[1], 1), filters)
                       THEN <<MessageOf(items[1], 1)>> ELSE <<>>

\* C9 witness: such a file has been read to its end and record 1 was yielded.
C9_Witness ==
    /\ mode = "file" /\ pc = "done" /\ Len(items) = 2 /\ IsGood(items[1])
    /\ items[2].k = "rec" /\ items[2].lenDelta > 0
    /\ out = <<MessageOf(items[1], 1)>> /\ pos = Len(data)

\* C11 (as claimed): in file mode get_next_message never raises because of
\* what a record holds; every failure is caught and resynchronized.
C11_FileNeverRaises ==
    mode = "file" =>
        /\ pc # "raised"
        /\ \A i \in 1..Len(trace) : trace[i].outcome # "raised"

\* The offset of the end of the source a stream-mode fill finds itself at.
SourceAtEnd == pos = Len(data)

NextSignatureAfter(file, s) ==
    LET hits == {t \in (s + 1)..(Len(file) - 4) : Slice(file, t, 4) = Signature}
    IN IF hits = {} THEN Len(file) ELSE CHOOSE t \in hits : \A u \in hits : t <= u

\* C13: after a failed parse at offset s the offset is the smallest t > s at
\* which the signature occurs, or the file length if there is none, and the next
\* parse attempt (if any) starts there; the offset never passes the file's end.
C13_ResyncToNextSignature ==
    mode = "file" =>
        /\ pos <= Len(data)
        /\ \A i \in 1..Len(trace) :
              trace[i].outcome = "resync" =>
                  /\ trace[i].next = NextSignatureAfter(data, trace[i].at)
                  /\ i < Len(trace) => trace[i + 1].at = trace[i].next
                  /\ i = Len(trace) => pos = trace[i].next

\* C13 witness: a failed parse was followed by a scan that dropped more than
\* one byte and stopped at a signature inside the file, where a record was then
\* parsed and returned; a later failed parse ran to the file's end.
C13_Witness ==
    /\ mode = "file" /\ pc = "done"
    /\ \E i \in 1..(Len(trace) - 1) :
          /\ trace[i].outcome = "resync"
          /\ trace[i].next > trace[i].at + 1 /\ trace[i].next < Len(data)
          /\ trace[i + 1].outcome = "emit"
    /\ trace[Len(trace)].outcome = "resync" /\ trace[Len(trace)].next = Len(data)

\* C14: in file mode the offsets at which a record parse is attempted are
\* strictly increasing, whatever became of the previous attempt.
C14_ParseOffsetsIncrease ==
    mode = "file" =>
        \A i \in 1..(Len(trace) - 1) : trace[i].at < trace[i + 1].at

\* C14 witness: a file was read to its end through a discarded record, a
\* failed parse with resynchronization, and a returned record.
C14_Witness ==
    /\ mode = "file" /\ pc = "done" /\ Len(trace) >= 3
    /\ \E i \in 1..Len(trace) : trace[i].outcome = "skip"
    /\ \E i \in 1..Len(trace) : trace[i].outcome = "resync"
    /\ \E i \in 1..Len(trace) : trace[i].outcome = "emit"

\* C15 (checked under SpecFile): file-mode iteration terminates on every
\* file.  Every pass of the loop that does not end the call at the end of the
\* file moves the offset forward, never past the file length, so a call makes
\* finitely many parse attempts; and after finitely many calls the offset
\* is the file length and get_next_message returns None from then on.
C15_FileIterationTerminates ==
    /\ [][(pc = "run" /\ pc' # "done") =>
             (pos' > pos /\ pos' <= Len(data))]_vars
    /\ <>[](pc = "done" /\ pos = Len(data))

\* C15 witness: a file with a record that made a call raise, a stretch that
\* had to be resynchronized and a record that was returned has been read to its
\* end.
C15_Witness ==
    /\ mode = "file" /\ pc = "done" /\ pos = Len(data)
    /\ \E i \in 1..Len(trace) : trace[i].outcome = "raised"
    /\ \E i \in 1..Len(trace) : trace[i].outcome = "resync"
    /\ \E i \in 1..Len(trace) : trace[i].outcome = "emit"

\* C16 (as claimed): in stream mode every read() that succeeded (one trace
\* entry each) is followed by the assembly of a message and by one
\* consume_message, which releases exactly that record.
C16_ConsumeOncePerRead ==
    mode = "stream" =>
        \A i \in 1..Len(trace) :
            LET r == DecodeRecord(data, trace[i].at) IN
            /\ r.status = "ok"
            /\ trace[i].outcome \in {"emit", "skip"}
            /\ trace[i].next = r.end

\* C17: in stream mode the valid region holds only bytes the source delivered,
\* the last ones, and fits the buffer; every update_buffer(l) is given an l of
\* at least 1 and at most the length of the window get_buffer returned just
\* before, and the region grows by exactly the l bytes delivered.
C17_ValidRegionIsDelivered ==
    /\ [](mode = "stream" =>
            /\ Len(buf) <= cap /\ Len(buf) <= pos
            /\ buf = Slice(data, pos - Len(buf), Len(buf)))
    /\ [][(mode = "stream" /\ pc = "run" /\ rpc = "fill" /\ pc' = "run") =>
             LET l == Len(buf') - Len(buf)
                 b == GetBuffer(cap, Len(buf))
             IN /\ 0 < l /\ l <= b.window
                /\ pos' = pos + l /\ cap' = b.cap
                /\ buf' = buf \o Slice(data, pos, l)]_vars

\* C17 witness: after short reads into a buffer that had to grow, a fill has
\* just updated a valid region that does not fill the buffer.
C17_Witness ==
    /\ mode = "stream" /\ pc = "run" /\ rpc = "read"
    /\ cap > BufChunk /\ ~chunking.max
    /\ buf # <<>> /\ Len(buf) < cap

\* C18: in file mode a parsed record is returned exactly when it is verbose
\* and either no filters are configured (None) or match() is true; returned or
\* discarded, the offset afterwards is the first byte after that record, and
\* the next parse attempt starts there.
C18_EmitIffVerboseAndMatching ==
    mode = "file" =>
        \A i \in 1..Len(trace) :
            trace[i].outcome \in {"emit", "skip"} =>
                LET r == DecodeRecord(data, trace[i].at)
                    m == loadn(r)
                IN /\ trace[i].outcome = "emit" <=>
                        (/\ m.verbose = Some(TRUE)
                         /\ filters = NoneVal \/ match(m, filters[1]))
                   /\ trace[i].next = r.end
                   /\ i < Len(trace) => trace[i + 1].at = r.end

\* C18 witness: with a filter configured, a verbose record the filter rejects
\* was discarded and the matching record right after it was returned.
C18_Witness ==
    /\ mode = "file" /\ pc = "done" /\ filters # NoneVal /\ filters[1] # <<>>
    /\ Len(items) = 2 /\ IsVerbose(items[1]) /\ IsGood(items[1])
    /\ Len(trace) = 2
    /\ trace[1].outcome = "skip" /\ trace[2].outcome = "emit"
    /\ out = <<MessageOf(items[2], 2)>>

\* C19: in file mode with capture_raw set, every pass of the loop ends at the
\* offset, with the outcome and with the message it has with capture_raw unset,
\* and each pass starts where the one before ended: the parse offsets and the
\* returned messages are those of a run without raw capture.
C19_CaptureRawKeepsScan ==
    (mode = "file" /\ capture_raw) =>
        /\ \A i \in 1..Len(trace) :
              LET p == FilePass(data, trace[i].at, filters, FALSE) IN
              /\ trace[i].at = (IF i = 1 THEN 0 ELSE trace[i - 1].next)
              /\ trace[i].next = p.pos /\ trace[i].outcome = p.outcome
        /\ trace # <<>> => pos = trace[Len(trace)].next
        /\ LET emitted == SelectSeq([i \in 1..Len(trace) |->
                                 FilePass(data, trace[i].at, filters, FALSE)],
                              LAMBDA p : p.outcome = "emit")
           IN out = [j \in 1..Len(emitted) |-> emitted[j].msg]

\* C19 witness: with capture_raw set a file of two records was read to its end
\* and both were returned.
C19_Witness ==
    /\ mode = "file" /\ capture_raw /\ pc = "done"
    /\ Len(items) = 2 /\ Len(out) = 2 /\ Len(trace) = 2

\* C20 (as claimed): a decoded message's ts is set, to the tick count, exactly
\* when the record carries the timestamp field, tick count 0 included.
C20_TimestampSetWhenPresent ==
    \A i \in 1..Len(trace) :
        trace[i].outcome \in {"emit", "skip"} =>
            LET r == DecodeRecord(data, trace[i].at)
                m == loadn(r)
            IN /\ m.ts # NoneVal <=> r.has_tmsp
               /\ r.has_tmsp => m.ts = Some(r.tmsp)

----------------------------------------------------------------------------
(* Claims about payload decoding, checked under SpecPayload.               *)

\* Whether the decoded value v ends with a NUL byte.
EndsWithNul(v) == v.t = "bytes" /\ v.data # <<>> /\ v.data[Len(v.data)] = 0

\* C5 (as claimed): whatever the raw payload, all accesses of .payload give the
\* identical result and parse_payload runs at most once per message.
C5_ParsedAtMostOnce ==
    /\ parse_calls <= 1
    /\ \A i, j \in 1..Len(results) : results[i] = results[j]

\* C7 (as claimed): no string value of a successfully decoded payload ends with
\* a NUL byte.
C7_NoTrailingNul ==
    \A i \in 1..Len(results) :
        results[i].kind = "ok" =>
            \A j \in 1..Len(results[i].items) : ~EndsWithNul(results[i].items[j])

\* C7 (amended): in a successfully decoded payload every string item was
\* NUL-terminated and its value is the declared data without that one final
\* byte; the value ends with a NUL exactly when the data ended in two NULs.
C7_TerminatorStripped ==
    \A i \in 1..Len(results) :
        results[i].kind = "ok" =>
            /\ Len(results[i].items) = Len(p_items)
            /\ \A j \in 1..Len(p_items) :
                  p_items[j].k = "str" =>
                    LET d == p_items[j].data
                        v == results[i].items[j]
                    IN /\ Terminated(p_items[j])
                       /\ v = BytesVal(SubSeq(d, 1, Len(d) - 1))
                       /\ EndsWithNul(v) <=> (Len(d) >= 2 /\ d[Len(d) - 1] = 0)

\* C7 witness: a payload with a string ending in two NULs and one ending in a
\* single NUL has been decoded.
C7_Witness ==
    /\ Len(results) >= 1 /\ results[1].kind = "ok"
    /\ \E j \in 1..Len(p_items) : p_items[j] = StrItem(<<104, 0, 0>>)
    /\ \E j \in 1..Len(p_items) : p_items[j] = StrItem(<<104, 105, 0>>)

\* C8: when decoding reaches a string item whose declared data does not end with
\* NUL (or is empty), every access raises (the failed assert, or the IndexError
\* of the empty value); no value is returned or cached.
C8_UnterminatedStringRaises ==
    LET b == FirstBad(p_items) IN
    (b > 0 /\ Unterminated(p_items[b])) =>
        /\ payload_cache = None
        /\ \A i \in 1..Len(results) :
              /\ results[i].kind = "raise"
              /\ results[i].exc = (IF p_items[b].data = <<>> THEN "IndexError"
                                   ELSE "AssertionError")

\* C8 witness: a payload whose second item is an unterminated, non-empty string
\* has been accessed.
C8_Witness ==
    /\ Len(results) >= 1
    /\ Len(p_items) = 2 /\ Decodable(p_items[1]) /\ p_items[2] = StrItem(<<104>>)

\* C10: when decoding reaches an item whose tag declares none of the five kinds,
\* every access gives None, never the items decoded before it, and nothing is
\* cached.
C10_UnknownTagGivesNone ==
    LET b == FirstBad(p_items) IN
    (b > 0 /\ p_items[b].k = "unknown") =>
        /\ payload_cache = None
        /\ \A i \in 1..Len(results) : results[i] = None

\* C10 witness: a payload with a decodable item followed by an unknown tag has
\* been accessed.
C10_Witness ==
    /\ Len(results) >= 1
    /\ Len(p_items) = 2 /\ Decodable(p_items[1]) /\ p_items[2].k = "unknown"

====
